---- MODULE Spec2Model ----
(***************************************************************************)
(* HttpHealthCheckShareAdjuster of tellapart/aurproxy                      *)
(* (src/tellapart/aurproxy/share/adjusters/health.py): the sliding-window  *)
(* evaluator _update_status, the self-rescheduling firing _check, start,   *)
(* stop and auditable_share.                                               *)
(*                                                                         *)
(* Time is abstracted: spawn_later(interval, _check) adds a pending firing *)
(* that may fire at any later step.  The probe (request.urlopen) is a      *)
(* suspension point: a firing that issued its probe is "in flight" until   *)
(* the probe returns or raises.                                            *)
(***************************************************************************)
EXTENDS Integers, Sequences, FiniteSets

\* ------------------------------------------------------------------ bounds
\* Thresholds the constructor is given range over 0..MaxThreshold.
MaxThreshold == 2
\* start() is called at most MaxStarts times.
MaxStarts == 2

\* ------------------------------------------------- HealthCheckResult kinds
ERROR_CODE == "error_code"
KNOWN_LOCAL_ERROR == "known_local_error"
KNOWN_REMOTE_ERROR == "known_remote_error"
SUCCESS == "success"
TIMEOUT == "timeout"
UNKNOWN_ERROR == "unknown_error"
CONNECTION_ERROR == "connection_error"

HealthCheckResult ==
  { ERROR_CODE, KNOWN_LOCAL_ERROR, KNOWN_REMOTE_ERROR, SUCCESS, TIMEOUT,
    UNKNOWN_ERROR, CONNECTION_ERROR }

HEALTHY_RESULTS == { SUCCESS }
\* A mutant of UNCHANGED_RESULTS: no result kind is skipped.
UNCHANGED_RESULTS_Empty == { }

UNCHANGED_RESULTS == { KNOWN_LOCAL_ERROR }
UNHEALTHY_RESULTS ==
  { ERROR_CODE, KNOWN_REMOTE_ERROR, TIMEOUT, CONNECTION_ERROR, UNKNOWN_ERROR }

\* ------------------------------------------------------ HealthCheckStatus
HEALTHY == "healthy"
INITIALIZING == "initializing"
UNHEALTHY == "unhealthy"

HealthCheckStatus == { HEALTHY, INITIALIZING, UNHEALTHY }

\* A mutant of HEALTHY_STATUSES: initializing counted as a healthy status.
HEALTHY_STATUSES_WithInitializing == { HEALTHY, INITIALIZING }

HEALTHY_STATUSES == { HEALTHY }

\* ------------------------------------------------------------ environment
\* What one probe attempt (request.urlopen, line 205) can do to its caller:
\*   resp_200         a response object whose getcode() is 200
\*   resp_other       a response object whose getcode() is not 200
\*                    (urlopen returns every 2xx response, e.g. 204)
\*   HTTPError        urllib.error.HTTPError (non-2xx response)
\*   URLError         urllib.error.URLError (refused, DNS, unreachable)
\*   URLError_timeout URLError wrapping socket.timeout (the timeout expired
\*                    while connecting or sending)
\*   socket_timeout   socket.timeout raised bare (the timeout expired while
\*                    reading the response); not a URLError
\*   other_exception  any other exception of the request (for example
\*                    http.client.RemoteDisconnected, ConnectionResetError)
ResponseOutcomes == { "resp_200", "resp_other" }
ProbeOutcomes ==
  ResponseOutcomes \cup
  { "HTTPError", "URLError", "URLError_timeout", "socket_timeout",
    "other_exception" }

\* How a firing of _check can end without a probe outcome.
NoProbeOutcomes == { "none", "stopped", "uri_exception" }

\* What the update-signal callback can do when it is invoked:
\*   returns        returns normally
\*   raises         raises an Exception whose args are not empty
\*   raises_noargs  raises an Exception whose args are empty (Exception())
CallbackBehaviours == { "returns", "raises", "raises_noargs" }

\* ------------------------------------------------------------- http_method
\* The http_method arguments __init__ is called with, and the defaults of
\* its signature.
HttpMethodArgs == { "GET", "HEAD", "head", "POST" }
DefaultHttpMethod == "GET"
DefaultHealthyThreshold == 2
DefaultUnhealthyThreshold == 2

\* str.upper() and str.lower() on those arguments.
Upper(s) ==
  CASE s \in { "GET", "get" } -> "GET"
    [] s \in { "HEAD", "head" } -> "HEAD"
    [] s \in { "POST", "post" } -> "POST"

Lower(s) ==
  CASE s \in { "GET", "get" } -> "get"
    [] s \in { "HEAD", "head" } -> "head"
    [] s \in { "POST", "post" } -> "post"

\* A mutant of SUPPORTED_HEALTHCHECK_METHODS: POST is supported too.
SUPPORTED_HEALTHCHECK_METHODS_WithPost == { "GET", "HEAD", "POST" }

SUPPORTED_HEALTHCHECK_METHODS == { "GET", "HEAD" }

VARIABLES
  http_method_arg,      \* the http_method argument of __init__
  http_method,          \* self._http_method; "raised" when __init__ raised
  healthy_threshold,    \* self._healthy_threshold
  unhealthy_threshold,  \* self._unhealthy_threshold
  check_results,        \* self._check_results, a deque with maxlen
  status,               \* self._status
  stop_event,           \* self._stop_event.is_set()
  starts,               \* number of start() calls made
  pending,              \* firings scheduled by spawn_later, not yet run
  inflight,             \* firings suspended in request.urlopen
  last_outcome,         \* how the most recently finished firing ended
  last_result,          \* check_result of the most recent _update_status call
  last_callback,        \* what the callback did in that call
  last_rescheduled,     \* whether the finished firing reached line 249
  fold_counts,          \* counter increments made by that call
  callback_saw          \* self._status as the callback found it in that call

vars ==
  << http_method_arg, http_method, healthy_threshold, unhealthy_threshold, check_results, status,
     stop_event, starts, pending, inflight, last_outcome, last_result,
     last_callback, last_rescheduled, fold_counts, callback_saw >>

config ==
  << http_method_arg, http_method, healthy_threshold, unhealthy_threshold >>
sched == << stop_event, starts, pending, inflight >>

NoCounts ==
  [ UPDATED_HEALTH_STATUS |-> 0, RUNNING_CALLBACK |-> 0, signal_update_fn |-> 0 ]

\* ----------------------------------------------------------- __init__
max_result_len == healthy_threshold + unhealthy_threshold

\* if http_method.upper() not in SUPPORTED_HEALTHCHECK_METHODS: raise
InitRaises(method) == Upper(method) \notin SUPPORTED_HEALTHCHECK_METHODS

\* __init__ returned an adjuster: its methods can be called.
constructed == http_method # "raised"

\* The state __init__ leaves when called with an http_method of methods
\* and thresholds of healthy and unhealthy.  When it raises, at line 125,
\* the caller gets no adjuster; the attributes assigned before the raise
\* are kept in the state but no method can be called on them.
InitWith(methods, healthy, unhealthy) ==
  /\ http_method_arg \in methods
  /\ http_method =
       IF InitRaises(http_method_arg) THEN "raised"
                                      ELSE Lower(http_method_arg)
  /\ healthy_threshold \in healthy
  /\ unhealthy_threshold \in unhealthy
  /\ check_results = << >>
  /\ status = INITIALIZING
  /\ stop_event = FALSE
  /\ starts = 0
  /\ pending = 0
  /\ inflight = 0
  /\ last_outcome = "none"
  /\ last_result = "none"
  /\ last_callback = "not_called"
  /\ last_rescheduled = FALSE
  /\ fold_counts = NoCounts
  /\ callback_saw = "none"

\* __init__ with the default http_method and any thresholds.
Init == InitWith({ DefaultHttpMethod }, 0..MaxThreshold, 0..MaxThreshold)

\* __init__ with any http_method and the default thresholds.
CtorInit ==
  InitWith(HttpMethodArgs, { DefaultHealthyThreshold },
           { DefaultUnhealthyThreshold })

\* ----------------------------------------------------- auditable_share
auditable_share ==
  IF status \in HEALTHY_STATUSES
    THEN [ share |-> 1, audit |-> << "health", "1.0" >> ]
    ELSE [ share |-> 0, audit |-> << "health", "0.0" >> ]

\* ------------------------------------------------------ _update_status
\* A mutant of DequeAppend: the deque has no maxlen.
DequeAppend_NoEvict(d, x, n) == Append(d, x)

\* collections.deque(maxlen=n).append(x): a full deque drops its oldest
\* entry; a deque of maxlen 0 stays empty.
DequeAppend(d, x, n) ==
  IF n = 0 THEN d
  ELSE IF Len(d) >= n THEN Tail(d) \o << x >>
  ELSE Append(d, x)

\* list(check_results)[-n:]: the last n entries, all of them when the list
\* is shorter, and (n = 0) the whole list, since [-0:] is [0:].
Lookback(list, n) ==
  IF n = 0 \/ n >= Len(list) THEN list
  ELSE SubSeq(list, Len(list) - n + 1, Len(list))

AllIn(list, S) == \A i \in 1..Len(list) : list[i] \in S

\* A mutant of HealthyLookbackHolds: the length test dropped.
HealthyLookbackHolds_NoLen(list) ==
  AllIn(Lookback(list, healthy_threshold), HEALTHY_RESULTS)

HealthyLookbackHolds(list) ==
  /\ Len(Lookback(list, healthy_threshold)) = healthy_threshold
  /\ AllIn(Lookback(list, healthy_threshold), HEALTHY_RESULTS)

UnhealthyLookbackHolds(list) ==
  /\ Len(Lookback(list, unhealthy_threshold)) = unhealthy_threshold
  /\ AllIn(Lookback(list, unhealthy_threshold), UNHEALTHY_RESULTS)

\* A mutant of calculated_status: one unhealthy entry in the unhealthy
\* lookback is enough (any instead of all).
calculated_status_AnyUnhealthy(list) ==
  IF \E i \in 1..Len(Lookback(list, unhealthy_threshold)) :
       Lookback(list, unhealthy_threshold)[i] \in UNHEALTHY_RESULTS
    THEN UNHEALTHY
  ELSE IF HealthyLookbackHolds(list) THEN HEALTHY
  ELSE status

\* A mutant of calculated_status: a fold in which neither condition holds
\* falls back to initializing instead of the current status.
calculated_status_Reset(list) ==
  IF UnhealthyLookbackHolds(list) THEN UNHEALTHY
  ELSE IF HealthyLookbackHolds(list) THEN HEALTHY
  ELSE INITIALIZING

\* A mutant of calculated_status: the healthy evaluation runs last.
calculated_status_HealthyWins(list) ==
  IF HealthyLookbackHolds(list) THEN HEALTHY
  ELSE IF UnhealthyLookbackHolds(list) THEN UNHEALTHY
  ELSE status

\* The unhealthy evaluation runs after the healthy one and overwrites it.
calculated_status(list) ==
  IF UnhealthyLookbackHolds(list) THEN UNHEALTHY
  ELSE IF HealthyLookbackHolds(list) THEN HEALTHY
  ELSE status

AppendedResults(check_result) ==
  DequeAppend(check_results, check_result, max_result_len)

\* A mutant of Transitions: every appended result counts as a transition.
Transitions_EveryFold(check_result) ==
  check_result \notin UNCHANGED_RESULTS

\* if self._status != calculated_status
Transitions(check_result) ==
  /\ check_result \notin UNCHANGED_RESULTS
  /\ calculated_status(AppendedResults(check_result)) # status

\* except Exception as ex: ... labels(type=ex.args[0]): an exception with
\* empty args makes the handler itself raise IndexError, which leaves
\* _update_status before the counter is incremented.
CallbackEscapes(cb) == cb = "raises_noargs"

UpdateEscapes(check_result, cb) ==
  Transitions(check_result) /\ CallbackEscapes(cb)

\* A mutant of StatusAtCallback: the callback runs before the assignment.
StatusAtCallback_Stale(check_result) == status

\* self._status when self._signal_update_fn() is called (line 324), after
\* the assignment of line 313.
StatusAtCallback(check_result) ==
  calculated_status(AppendedResults(check_result))

update_status(check_result, cb) ==
  /\ last_result' = check_result
  /\ IF check_result \in UNCHANGED_RESULTS
       THEN /\ UNCHANGED << check_results, status >>
            /\ last_callback' = "not_called"
            /\ fold_counts' = NoCounts
            /\ callback_saw' = "none"
       ELSE /\ check_results' = AppendedResults(check_result)
            /\ status' = calculated_status(AppendedResults(check_result))
            /\ IF Transitions(check_result)
                 THEN /\ last_callback' = cb
                      /\ fold_counts' =
                           [ UPDATED_HEALTH_STATUS |-> 1,
                             RUNNING_CALLBACK |-> IF cb = "raises" THEN 1 ELSE 0,
                             signal_update_fn |-> 1 ]
                      /\ callback_saw' = StatusAtCallback(check_result)
                 ELSE /\ last_callback' = "not_called"
                      /\ fold_counts' = NoCounts
                      /\ callback_saw' = "none"

\* ------------------------------------------------------------- _check
\* The try statement of _check, lines 194-239: the result kind it leaves in
\* check_result, or "raise" when the exception is caught by no handler.
\* The else clause of the try (line 236) runs after every normal return of
\* the body and overwrites what the body assigned.
TryBody(outcome) ==
  IF outcome = "resp_200" THEN SUCCESS ELSE ERROR_CODE

TryElse(check_result) == SUCCESS

Classify(outcome) ==
  CASE outcome \in ResponseOutcomes -> TryElse(TryBody(outcome))
    [] outcome = "HTTPError" -> ERROR_CODE
    [] outcome \in { "URLError", "URLError_timeout" } -> UNKNOWN_ERROR
    [] OTHER -> "raise"

\* A mutant of spawn_later: the firing is scheduled twice.
spawn_later_Twice(scheduled) == scheduled + 2

\* spawn_later(self._interval, self._check): one more scheduled firing.
spawn_later(scheduled) == scheduled + 1

\* A mutant of start: a second call does nothing.
start_Guarded ==
  /\ constructed
  /\ starts = 0
  /\ starts' = starts + 1
  /\ pending' = spawn_later(pending)
  /\ UNCHANGED << config, check_results, status, stop_event, inflight,
                  last_outcome, last_result, last_callback, last_rescheduled,
                  fold_counts, callback_saw >>

\* start(): spawn_later(self._interval, self._check)
start ==
  /\ constructed
  /\ starts < MaxStarts
  /\ starts' = starts + 1
  /\ pending' = spawn_later(pending)
  /\ UNCHANGED << config, check_results, status, stop_event, inflight,
                  last_outcome, last_result, last_callback, last_rescheduled,
                  fold_counts, callback_saw >>

\* stop(): self._stop_event.set()
stop ==
  /\ constructed
  /\ stop_event' = TRUE
  /\ UNCHANGED << config, check_results, status, starts, pending, inflight,
                  last_outcome, last_result, last_callback, last_rescheduled,
                  fold_counts, callback_saw >>

\* A firing that ends without calling _update_status and without
\* rescheduling.
EndsEarly(how) ==
  /\ last_outcome' = how
  /\ last_result' = "none"
  /\ last_callback' = "not_called"
  /\ last_rescheduled' = FALSE
  /\ fold_counts' = NoCounts
  /\ callback_saw' = "none"
  /\ UNCHANGED << check_results, status >>

\* A mutant of StopObserved: the firing does not look at the stop flag.
StopObserved_Ignored == FALSE

\* if self._stop_event.is_set(): return
StopObserved == stop_event

\* A pending firing runs _check up to its suspension in urlopen: it returns
\* on the stop flag, dies when _build_check_uri raises (a port_name missing
\* from the endpoint's port_map raises KeyError), or issues the probe.
check ==
  /\ constructed
  /\ pending > 0
  /\ pending' = pending - 1
  /\ UNCHANGED << config, stop_event, starts >>
  /\ IF StopObserved
       THEN /\ EndsEarly("stopped")
            /\ inflight' = inflight
       ELSE \/ /\ EndsEarly("uri_exception")
               /\ inflight' = inflight
            \/ /\ inflight' = inflight + 1
               /\ UNCHANGED << check_results, status, last_outcome,
                               last_result, last_callback, last_rescheduled,
                               fold_counts, callback_saw >>

\* The probe of an in-flight firing returns or raises; the firing runs to
\* its end: classification, _update_status, spawn_later.
check_complete ==
  /\ constructed
  /\ inflight > 0
  /\ UNCHANGED << config, stop_event, starts >>
  /\ \E outcome \in ProbeOutcomes, cb \in CallbackBehaviours :
       /\ last_outcome' = outcome
       /\ IF Classify(outcome) = "raise"
            THEN /\ last_result' = "none"
                 /\ last_callback' = "not_called"
                 /\ fold_counts' = NoCounts
                 /\ callback_saw' = "none"
                 /\ last_rescheduled' = FALSE
                 /\ UNCHANGED << check_results, status >>
                 /\ inflight' = inflight - 1
                 /\ pending' = pending
            ELSE /\ update_status(Classify(outcome), cb)
                 /\ IF UpdateEscapes(Classify(outcome), cb)
                      THEN /\ last_rescheduled' = FALSE
                           /\ inflight' = inflight - 1
                           /\ pending' = pending
                      ELSE /\ last_rescheduled' = TRUE
                           /\ inflight' = inflight - 1
                           /\ pending' = spawn_later(pending)

Next == start \/ stop \/ check \/ check_complete

Spec == Init /\ [][Next]_vars

\* spawn_later timers expire and urlopen returns or raises within its
\* timeout, so a pending firing eventually runs and an in-flight probe
\* eventually completes.
FairSpec == Spec /\ WF_vars(check) /\ WF_vars(check_complete)

\* The adjuster as constructed with each http_method argument.
CtorSpec == CtorInit /\ [][Next]_vars

\* ------------------------------------------------- the evaluator alone
\* _update_status called directly with any sequence of result kinds.
fold ==
  /\ constructed
  /\ \E check_result \in HealthCheckResult, cb \in CallbackBehaviours :
       update_status(check_result, cb)
  /\ UNCHANGED << config, sched, last_outcome, last_rescheduled >>

EvalNext == fold

EvalSpec == Init /\ [][EvalNext]_vars

\* ======================================================================
\* Properties
\* ======================================================================
PositiveThresholds == healthy_threshold > 0 /\ unhealthy_threshold > 0

\* The n most recent entries of list exist and are all in S.
RecentAll(list, n, S) ==
  /\ Len(list) >= n
  /\ \A i \in (Len(list) - n + 1)..Len(list) : list[i] \in S

\* C1: with positive thresholds, a fold changes the status to healthy only
\* if afterwards the healthy_threshold most recent history entries exist
\* and are all healthy results, and to unhealthy only if afterwards the
\* unhealthy_threshold most recent entries exist and are all unhealthy
\* results; a history shorter than a threshold never triggers it.
C1_TransitionOnlyOnFullWindow ==
  [][ PositiveThresholds /\ status' # status =>
        /\ status' \in { HEALTHY, UNHEALTHY }
        /\ status' = HEALTHY =>
             RecentAll(check_results', healthy_threshold, HEALTHY_RESULTS)
        /\ status' = UNHEALTHY =>
             RecentAll(check_results', unhealthy_threshold, UNHEALTHY_RESULTS)
    ]_vars

\* A fold has just flipped a healthy adjuster (two successes) to unhealthy
\* (two failures) with thresholds 2/2.
C1_Witness ==
  /\ healthy_threshold = 2 /\ unhealthy_threshold = 2
  /\ Len(check_results) = 4
  /\ check_results[1] = SUCCESS /\ check_results[2] = SUCCESS
  /\ status = UNHEALTHY
  /\ fold_counts.UPDATED_HEALTH_STATUS = 1

\* C2: with positive thresholds, after a fold of a result outside the
\* unchanged set the status is healthy if the last healthy_threshold
\* entries are all success, unhealthy if the last unhealthy_threshold
\* entries are all unhealthy results, and otherwise what it was before;
\* with thresholds 2/2, [success, success] gives healthy and a following
\* [error_code, error_code] gives unhealthy.
C2_FoldResult ==
  /\ [][ PositiveThresholds /\ last_result' \notin UNCHANGED_RESULTS =>
           status' =
             IF RecentAll(check_results', healthy_threshold, { SUCCESS })
               THEN HEALTHY
             ELSE IF RecentAll(check_results', unhealthy_threshold,
                               UNHEALTHY_RESULTS)
               THEN UNHEALTHY
             ELSE status
       ]_vars
  /\ [](healthy_threshold = 2 /\ unhealthy_threshold = 2 =>
          /\ check_results = << SUCCESS, SUCCESS >> => status = HEALTHY
          /\ check_results = << SUCCESS, SUCCESS, ERROR_CODE, ERROR_CODE >>
               => status = UNHEALTHY)

\* Thresholds 2/2 after [success, success, error_code, error_code].
C2_Witness ==
  /\ healthy_threshold = 2 /\ unhealthy_threshold = 2
  /\ check_results = << SUCCESS, SUCCESS, ERROR_CODE, ERROR_CODE >>
  /\ status = UNHEALTHY
  /\ last_result = ERROR_CODE

\* C3: every firing that gets past the stop test schedules the next firing,
\* whatever the probe does (stated for positive thresholds; the firings
\* whose callback raised are C4's).
C3_AlwaysReschedules ==
  ( /\ PositiveThresholds
    /\ last_outcome \in ProbeOutcomes \cup { "uri_exception" }
    /\ last_callback \notin { "raises", "raises_noargs" } )
  => last_rescheduled

\* C4: when the callback raises, the firing still schedules the next firing
\* and the callback-failure counter is incremented exactly once (stated
\* for positive thresholds).
C4_CallbackFailureContained ==
  PositiveThresholds /\ last_callback \in { "raises", "raises_noargs" } =>
    /\ last_rescheduled
    /\ fold_counts.RUNNING_CALLBACK = 1

\* C5: a response whose status code is not 200, returned as a response
\* object or raised as HTTPError, is folded as error_code (stated for
\* positive thresholds).
C5_Non200IsErrorCode ==
  PositiveThresholds /\ last_outcome \in { "resp_other", "HTTPError" } =>
    last_result = ERROR_CODE

\* C6: a probe that exceeds the timeout is folded as timeout, a member of
\* the unhealthy set (stated for positive thresholds).
C6_TimeoutIsTimeout ==
  PositiveThresholds
  /\ last_outcome \in { "URLError_timeout", "socket_timeout" } =>
    /\ last_result = TIMEOUT
    /\ TIMEOUT \in UNHEALTHY_RESULTS

\* C7: once the stop flag is set it stays set, no firing issues a probe,
\* and every firing that begins returns without touching history or status
\* and without rescheduling; in-flight probes may still finish.
C7_NoProbeAfterStop ==
  [][ stop_event =>
        /\ stop_event'
        /\ inflight' <= inflight
        /\ pending' < pending =>
             /\ UNCHANGED << check_results, status, inflight >>
             /\ last_outcome' = "stopped"
             /\ ~last_rescheduled'
             /\ pending' + inflight' < pending + inflight
    ]_vars

\* A firing that began after stop() returned on the stop flag, after the
\* loop had folded results before the stop.
C7_Witness ==
  /\ stop_event
  /\ last_outcome = "stopped"
  /\ check_results # << >>
  /\ pending = 0 /\ inflight = 0

\* C8: with positive thresholds and a callback that never raises, if from
\* some point on every probe fails, then eventually and for ever the
\* adjuster is stopped or its loop is alive with status unhealthy and
\* share 0.0.  Stated for the failures _check gives a result kind (a
\* non-200 response, HTTPError, URLError), which leave the loop running;
\* the failures that end the loop are C3's.
ClassifiedFailures ==
  { "resp_other", "HTTPError", "URLError", "URLError_timeout" }

C8_PersistentFailureSettlesUnhealthy ==
  ( /\ PositiveThresholds
    /\ [](last_callback \in { "not_called", "returns" })
    /\ <>[](last_outcome \in ClassifiedFailures) )
  => <>[]( \/ stop_event
           \/ /\ status = UNHEALTHY
              /\ auditable_share.share = 0
              /\ pending + inflight > 0 )

\* C9: the share is 1.0 (audit health=1.0) exactly when the status is
\* healthy, and 0.0 (audit health=0.0) when it is initializing or
\* unhealthy.
C9_ShareIffHealthy ==
  /\ auditable_share.share = 1 <=> status = HEALTHY
  /\ auditable_share.share = 1 =>
       auditable_share.audit = << "health", "1.0" >>
  /\ status \in { INITIALIZING, UNHEALTHY } =>
       /\ auditable_share.share = 0
       /\ auditable_share.audit = << "health", "0.0" >>

\* A 200 probe has just made the adjuster healthy: the share is 1.0.
C9_Witness ==
  /\ status = HEALTHY
  /\ last_outcome = "resp_200"
  /\ fold_counts.UPDATED_HEALTH_STATUS = 1
  /\ auditable_share.share = 1

\* C10: the history never holds more than healthy_threshold +
\* unhealthy_threshold entries; a fold into a history that is not full
\* appends at the end, and a fold into a full one drops the oldest entry
\* and keeps the order of the rest.
C10_BoundedHistory ==
  /\ [](Len(check_results) <= healthy_threshold + unhealthy_threshold)
  /\ [][ last_result' \notin UNCHANGED_RESULTS =>
           IF Len(check_results) < healthy_threshold + unhealthy_threshold
             THEN check_results' = check_results \o << last_result' >>
             ELSE /\ Len(check_results') = Len(check_results)
                  /\ \A i \in 1..(Len(check_results) - 1) :
                       check_results'[i] = check_results[i + 1]
                  /\ Len(check_results) > 0 =>
                       check_results'[Len(check_results)] = last_result'
       ]_vars

\* Thresholds 2/2, history full and status healthy although the window
\* ends error, success: the two successes that made it healthy have been
\* evicted.
C10_Witness ==
  /\ healthy_threshold = 2 /\ unhealthy_threshold = 2
  /\ check_results = << ERROR_CODE, SUCCESS, ERROR_CODE, SUCCESS >>
  /\ status = HEALTHY

\* C11: a fold of known_local_error leaves history and status as they
\* were and invokes neither the status-transition counter nor the
\* callback; known_local_error is never an entry of the history.
C11_KnownLocalErrorIsNoOp ==
  /\ [](\A i \in 1..Len(check_results) :
          check_results[i] # KNOWN_LOCAL_ERROR)
  /\ [][ last_result' = KNOWN_LOCAL_ERROR =>
           /\ UNCHANGED << check_results, status >>
           /\ fold_counts'.UPDATED_HEALTH_STATUS = 0
           /\ fold_counts'.signal_update_fn = 0
           /\ last_callback' = "not_called"
       ]_vars

\* known_local_error has just been folded into a healthy adjuster whose
\* latest entries would otherwise be followed by a transition.
C11_Witness ==
  /\ last_result = KNOWN_LOCAL_ERROR
  /\ status = HEALTHY
  /\ healthy_threshold = 1 /\ unhealthy_threshold = 2
  /\ check_results = << SUCCESS, SUCCESS, ERROR_CODE >>

\* C16: the status is initializing until start() is called, and a status
\* that has left initializing never returns to it.
C16_InitializingNeverReentered ==
  /\ [](starts = 0 => status = INITIALIZING)
  /\ [][ status # INITIALIZING => status' # INITIALIZING ]_vars

\* A stopped adjuster that went healthy and then unhealthy.
C16_Witness ==
  /\ status = UNHEALTHY
  /\ stop_event
  /\ healthy_threshold = 1 /\ unhealthy_threshold = 1
  /\ check_results = << SUCCESS, UNKNOWN_ERROR >>

\* C19: if after a fold both lookback conditions hold on the history, then
\* a threshold is 0 and the status is unhealthy.
C19_BothHoldUnhealthyWins ==
  [][ ( /\ last_result' \notin UNCHANGED_RESULTS
        /\ HealthyLookbackHolds(check_results')
        /\ UnhealthyLookbackHolds(check_results') )
      => /\ healthy_threshold = 0 \/ unhealthy_threshold = 0
         /\ status' = UNHEALTHY
    ]_vars

\* Thresholds 0/0: a success was folded, both conditions held on the empty
\* history and the status is unhealthy.
C19_Witness ==
  /\ healthy_threshold = 0 /\ unhealthy_threshold = 0
  /\ last_result = SUCCESS
  /\ HealthyLookbackHolds(check_results)
  /\ UnhealthyLookbackHolds(check_results)
  /\ status = UNHEALTHY

\* C12: the status changes only in a firing's fold, and a fold invokes the
\* callback once if it changes the status and not at all if it does not,
\* so invocations and status changes stay equal in number; with
\* thresholds 1/1 a 200 probe then a 503 probe give initializing ->
\* healthy (share 1.0, one invocation) and healthy -> unhealthy (share
\* 0.0, one more invocation).
C12_CallbackOncePerTransition ==
  /\ [][ /\ status' # status =>
              /\ inflight' < inflight
              /\ fold_counts'.signal_update_fn = 1
         /\ inflight' < inflight /\ status' = status =>
              fold_counts'.signal_update_fn = 0
       ]_vars
  /\ []( healthy_threshold = 1 /\ unhealthy_threshold = 1 =>
           /\ last_outcome = "resp_200" /\ check_results = << SUCCESS >> =>
                /\ status = HEALTHY
                /\ auditable_share.share = 1
                /\ fold_counts.signal_update_fn = 1
           /\ ( /\ last_outcome = "HTTPError"
                /\ check_results = << SUCCESS, ERROR_CODE >> ) =>
                /\ status = UNHEALTHY
                /\ auditable_share.share = 0
                /\ fold_counts.signal_update_fn = 1 )

\* Thresholds 1/1 after a 200 probe and a 503 probe: unhealthy, share 0.0,
\* the callback invoked by the second fold.
C12_Witness ==
  /\ healthy_threshold = 1 /\ unhealthy_threshold = 1
  /\ starts = 1
  /\ last_outcome = "HTTPError"
  /\ check_results = << SUCCESS, ERROR_CODE >>
  /\ status = UNHEALTHY
  /\ fold_counts.signal_update_fn = 1
  /\ last_callback = "returns"

\* C13: after a single start() at most one firing is pending or in flight,
\* and a firing is scheduled only by start() or by a firing that
\* completes.
C13_SequentialProbes ==
  /\ [](starts <= 1 => pending + inflight <= 1)
  /\ [][ starts' <= 1 /\ pending' > pending =>
           /\ pending' = pending + 1
           /\ starts' > starts \/ inflight' < inflight
       ]_vars

\* One start(), two results folded, the third probe in flight and nothing
\* else pending.
C13_Witness ==
  /\ starts = 1
  /\ Len(check_results) = 2
  /\ inflight = 1
  /\ pending = 0

\* C17 as stated: a probe in flight when stop() was called completes and
\* no firing is scheduled after it.
C17_NothingScheduledAfterStop ==
  [][ stop_event /\ inflight' < inflight => pending' = pending ]_vars

\* C17 as amended: a probe in flight under the stop flag can complete;
\* its firing schedules the next firing exactly when it reaches its last
\* statement, and a firing that runs under the stop flag ends its loop
\* without issuing a probe.
C17_InFlightCompletesThenLoopEnds ==
  /\ [](stop_event /\ inflight > 0 => ENABLED check_complete)
  /\ [][ stop_event =>
           /\ inflight' < inflight =>
                /\ inflight' = inflight - 1
                /\ pending' = IF last_rescheduled' THEN pending + 1
                                                   ELSE pending
           /\ pending' < pending =>
                /\ inflight' = inflight
                /\ pending' + inflight' = pending + inflight - 1
       ]_vars

\* A stopped adjuster, started once, whose probe returned 200, made it
\* healthy and scheduled the firing that is still pending.
C17_Witness ==
  /\ stop_event
  /\ starts = 1
  /\ last_outcome = "resp_200"
  /\ status = HEALTHY
  /\ fold_counts.UPDATED_HEALTH_STATUS = 1
  /\ last_rescheduled
  /\ pending = 1 /\ inflight = 0

\* C18: start() can be called whatever the adjuster's state, and each call
\* schedules one more firing beside those pending or in flight.
C18_StartNotGuarded ==
  /\ [](starts < MaxStarts => ENABLED start)
  /\ [][ starts' > starts =>
           /\ starts' = starts + 1
           /\ pending' = pending + 1
           /\ inflight' = inflight
       ]_vars

\* Two start() calls: two probes in flight at once, results already folded
\* into the one history.
C18_Witness ==
  /\ starts = 2
  /\ inflight = 2
  /\ Len(check_results) >= 2

\* C20 as stated: at every invocation of the callback the status is the
\* new one, and both the status and the share differ from what they were
\* before the fold.
C20_CallbackSeesChangedStatusAndShare ==
  [][ fold_counts'.signal_update_fn = 1 =>
        /\ callback_saw' = status'
        /\ status' # status
        /\ auditable_share' # auditable_share
    ]_vars

\* C20 as amended: at every invocation of the callback the status is the
\* new one and differs from the status before the fold; the share is that
\* of the new status, and it differs from the share before the fold except
\* on initializing -> unhealthy, where both are 0.0.
C20_CallbackSeesCommittedStatus ==
  [][ fold_counts'.signal_update_fn = 1 =>
        /\ callback_saw' = status'
        /\ status' # status
        /\ auditable_share' = auditable_share
             <=> status = INITIALIZING /\ status' = UNHEALTHY
    ]_vars

\* Thresholds 1/1, first fold an error: initializing -> unhealthy, the
\* callback found the status unhealthy and the share still 0.0.
C20_Witness ==
  /\ healthy_threshold = 1 /\ unhealthy_threshold = 1
  /\ check_results = << ERROR_CODE >>
  /\ fold_counts.signal_update_fn = 1
  /\ callback_saw = UNHEALTHY
  /\ status = UNHEALTHY
  /\ auditable_share.share = 0

\* C14: every adjuster that __init__ returns has positive thresholds.
C14_PositiveAtConstruction ==
  constructed => healthy_threshold > 0 /\ unhealthy_threshold > 0

\* C15: __init__ called with an http_method other than GET or HEAD raises:
\* there is no adjuster and no firing is ever scheduled or in flight;
\* called with GET or HEAD (in either case) it returns an adjuster, whose
\* status is initializing and whose history is empty until it is started.
C15_MethodValidatedAtConstruction ==
  /\ Upper(http_method_arg) \notin { "GET", "HEAD" } =>
       /\ ~constructed
       /\ starts = 0 /\ pending = 0 /\ inflight = 0
       /\ last_outcome = "none"
  /\ Upper(http_method_arg) \in { "GET", "HEAD" } =>
       /\ constructed
       /\ http_method = Lower(http_method_arg)
       /\ starts = 0 =>
            /\ status = INITIALIZING
            /\ check_results = << >>
            /\ pending = 0 /\ inflight = 0

\* __init__ was called with POST and raised.
C15_Witness ==
  /\ http_method_arg = "POST"
  /\ http_method = "raised"
  /\ ~constructed
  /\ pending = 0

====
